---- MODULE Spec2Model ----
(***************************************************************************)
(* A model of the Locale class of entity-locale (src/lib/index.js).        *)
(*                                                                         *)
(* State: the in-memory translation table (_locales), the 'locales'        *)
(* collection of the database, and the asynchronous calls in flight.       *)
(* Strings that the code scans (message keys, translations, token names)   *)
(* are sequences of one-character strings; language codes and the          *)
(* segments of a file path are atomic strings.                             *)
(*                                                                         *)
(* Input domain: language codes and message keys are strings that are not  *)
(* names of members of Object.prototype ("constructor", "toString",        *)
(* "__proto__", ...), and the values of a translation file are strings.    *)
(* The table is a plain JavaScript object, so for those names the code's   *)
(* property reads see inherited members; the model does not cover them.    *)
(*                                                                         *)
(* Specifications: Spec (every operation, each call awaited before the     *)
(* next), LoadSpec (store loads over collections with several documents    *)
(* for one pair), ConcSpec (translate calls that overlap), StrtrSpec       *)
(* (direct calls of _strtr) and ScanSpec (_strtr run by run of its loop).  *)
(***************************************************************************)
EXTENDS Integers, Sequences, FiniteSets, TLC

VARIABLES
  locales,   \* the in-memory table: language -> (message -> translation)
  store,     \* the database collection 'locales': a sequence of documents,
             \* a document's position being its _id
  calls,     \* the asynchronous calls, one record per slot
  obs,       \* the last synchronous read (locales or t) and what it returned
  nOps       \* the number of calls made so far

vars == <<locales, store, calls, obs, nOps>>

----------------------------------------------------------------------------
(* Bounds *)

MaxOps == 2      \* calls made in one behaviour
MaxCalls == 2    \* call slots (calls that can be in flight together)
MaxLen == 4      \* length of a string handed to _strtr directly
MaxParams == 2   \* tokens in the params handed to _strtr directly

----------------------------------------------------------------------------
(* Strings *)

K1 == <<"k">>               \* a message key without a token
K2 == <<":", "n">>          \* a message key that is a token
Empty == <<>>               \* the empty string ''
VA == <<"a">>
VB == <<"b", ":", "n">>     \* a translation holding a token

Langs == {"fr", "jp"}
Keys == {K1, K2}
Vals == {Empty, VA, VB}

ParamsSet == {<<>>, <<[name |-> <<"n">>, value |-> <<"J">>]>>}

Null == "null"
EmptyObj == <<>>            \* the object {}

\* the inputs of direct calls of _strtr: strings over a small alphabet, and
\* params as the sequence of (name, value) in for-in order, names distinct
Chars == {":", "n", "a"}
Strs == UNION {[1..len -> Chars] : len \in 0..MaxLen}
TokenNames == {<< >>, <<"n">>, <<"n", "a">>}
TokenValues == {<< >>, <<"X">>, <<":", "n">>}
Param(name, value) == [name |-> name, value |-> value]
ParamLists ==
  {ps \in UNION {[1..len -> {Param(name, value) :
                               name \in TokenNames, value \in TokenValues}] :
                   len \in 0..MaxParams} :
     \A i, j \in 1..Len(ps) : ps[i].name = ps[j].name => i = j}

----------------------------------------------------------------------------
(* JavaScript objects as maps *)

\* obj[k] === undefined
IsUndefined(obj, k) == k \notin DOMAIN obj

\* if (obj[k]) for an object whose values are strings: '' is falsy
Truthy(obj, k) == k \in DOMAIN obj /\ obj[k] # Empty

\* obj[k] = v
SetKey(obj, k, v) == [x \in DOMAIN obj \cup {k} |-> IF x = k THEN v ELSE obj[x]]

\* a variant of EnsureLanguage that always starts the language anew
EnsureLanguageReset(tbl, language) == SetKey(tbl, language, EmptyObj)

\* if (tbl[language] === undefined) tbl[language] = {}
EnsureLanguage(tbl, language) ==
  IF IsUndefined(tbl, language) THEN SetKey(tbl, language, EmptyObj) ELSE tbl

\* tbl[language][msg] = translation, after EnsureLanguage
SetTranslation(tbl, language, msg, translation) ==
  LET t1 == EnsureLanguage(tbl, language)
  IN  SetKey(t1, language, SetKey(t1[language], msg, translation))

----------------------------------------------------------------------------
(* The file system *)

\* A path is the result of path.split('.'); the directory is part of the
\* first segments. dots is the number of '.' in the directory part, so the
\* file name starts in segment dots + 1.
File(path, ok, content) ==
  [path |-> path, ok |-> ok, content |-> content, dots |-> 0]

FileUnder(dots, path, ok, content) ==
  [File(path, ok, content) EXCEPT !.dots = dots]

FileSystem == {
  File(<<"tmp/test1", "fr", "json">>, TRUE, SetKey(EmptyObj, K1, VA)),
  File(<<"tmp/test2", "fr", "json">>, TRUE, SetKey(SetKey(EmptyObj, K1, VB), K2, VB)),
  File(<<"tmp/test1", "jp", "json">>, TRUE, SetKey(EmptyObj, K2, VA)),
  File(<<"alt/a", "fr", "json">>, TRUE, SetKey(EmptyObj, K1, Empty)),
  File(<<"alt/b", "fr", "json">>, TRUE, SetKey(EmptyObj, K1, VA)),
  File(<<"alt/c", "jp", "json">>, TRUE, EmptyObj),
  File(<<"alt/broken", "jp", "json">>, FALSE, EmptyObj),
  File(<<"mix/x", "fr", "json">>, TRUE, SetKey(EmptyObj, K2, VA)),
  File(<<"mix/notes", "json">>, TRUE, SetKey(EmptyObj, K1, VA)),
  File(<<"mix/broken", "jp", "json">>, FALSE, EmptyObj),
  File(<<"mix/y", "fr", "json">>, TRUE, SetKey(EmptyObj, K1, VB)),
  File(<<"mix/worse", "fr", "json">>, FALSE, EmptyObj),
  FileUnder(1, <<"my", "app/z", "fr", "json">>, TRUE, SetKey(EmptyObj, K1, VA)) }

Paths == {f.path : f \in FileSystem}

\* the files that a caller hands to addFromFile itself
DirectFiles == {
  <<"tmp/test1", "fr", "json">>,
  <<"alt/a", "fr", "json">>,
  <<"alt/c", "jp", "json">>,
  <<"alt/broken", "jp", "json">>,
  <<"my", "app/z", "fr", "json">> }

FileAt(path) == CHOOSE f \in FileSystem : f.path = path

\* glob(path.join(dir, '**', '*.json')): the paths in the collector's order
Glob(dir) ==
  CASE dir = "tmp" -> << <<"tmp/test1", "fr", "json">>,
                         <<"tmp/test2", "fr", "json">>,
                         <<"tmp/test1", "jp", "json">> >>
    [] dir = "alt" -> << <<"alt/a", "fr", "json">>,
                         <<"alt/b", "fr", "json">>,
                         <<"alt/c", "jp", "json">> >>
    [] dir = "mix" -> << <<"mix/x", "fr", "json">>,
                         <<"mix/notes", "json">>,
                         <<"mix/broken", "jp", "json">>,
                         <<"mix/y", "fr", "json">>,
                         <<"mix/worse", "fr", "json">> >>
    [] dir = "my.app" -> << <<"my", "app/z", "fr", "json">> >>
    [] OTHER -> << >>

Dirs == {"tmp", "alt", "mix", "my.app"}
NoDir == ""

----------------------------------------------------------------------------
(* The pure parts of the code *)

\* the error that require(filename) throws
LoadError(filename) == "LoadError " \o filename[1]

\* _processFile(filename, done) on the table tbl: the table it leaves and
\* the error it hands to done. require(filename) throws for a missing or
\* malformed file before anything is changed.
processFile(tbl, filename) ==
  LET f == FileAt(filename)
      language == filename[2]
      t1 == EnsureLanguage(tbl, language)
      old == t1[language]
      merged == [msg \in DOMAIN old \cup DOMAIN f.content |->
                   IF msg \in DOMAIN f.content /\ ~Truthy(old, msg)
                   THEN f.content[msg]
                   ELSE old[msg]]
  IN  IF filename \notin Paths \/ ~f.ok
      THEN [table |-> tbl, err |-> LoadError(filename)]
      ELSE [table |-> SetKey(t1, language, merged), err |-> Null]

\* the filter of addFromDir: splt.length === 3 && splt[1].length === 2
Eligible(item) == Len(item) = 3 /\ Len(item[2]) = 2

RECURSIVE Queue(_)
Queue(files) ==
  IF files = << >> THEN << >>
  ELSE IF Eligible(Head(files)) THEN <<Head(files)>> \o Queue(Tail(files))
       ELSE Queue(Tail(files))

\* a variant of seriesFrom that runs the tasks left after an error
RECURSIVE seriesAll(_, _, _)
seriesAll(tbl, queue, loaded) ==
  IF queue = << >> THEN [table |-> tbl, err |-> Null, loaded |-> loaded]
  ELSE LET r == processFile(tbl, Head(queue))
           rest == seriesAll(r.table, Tail(queue), Append(loaded, Head(queue)))
       IN  IF r.err # Null THEN [rest EXCEPT !.err = r.err] ELSE rest

\* async.series over the queued addFromFile tasks: each task ends before the
\* next starts, and the first error ends the series. loaded lists the files
\* whose task has run.
RECURSIVE seriesFrom(_, _, _)
seriesFrom(tbl, queue, loaded) ==
  IF queue = << >> THEN [table |-> tbl, err |-> Null, loaded |-> loaded]
  ELSE LET r == processFile(tbl, Head(queue))
       IN  IF r.err # Null
           THEN [table |-> r.table, err |-> r.err,
                 loaded |-> Append(loaded, Head(queue))]
           ELSE seriesFrom(r.table, Tail(queue), Append(loaded, Head(queue)))

\* a variant of series that runs every task, whatever the tasks before it
\* reported
seriesContinue(tbl, queue) == seriesAll(tbl, queue, << >>)

series(tbl, queue) == seriesFrom(tbl, queue, << >>)

\* a variant of forEachDoc that keeps a value the table already holds
RECURSIVE forEachDocKeep(_, _)
forEachDocKeep(tbl, docs) ==
  IF docs = << >> THEN tbl
  ELSE LET d == Head(docs)
           t1 == EnsureLanguage(tbl, d.language)
       IN  forEachDocKeep(IF IsUndefined(t1[d.language], d.msg)
                          THEN SetTranslation(tbl, d.language, d.msg, d.translation)
                          ELSE t1,
                          Tail(docs))

\* docs.forEach of _addFromDatabase
RECURSIVE forEachDoc(_, _)
forEachDoc(tbl, docs) ==
  IF docs = << >> THEN tbl
  ELSE forEachDoc(SetTranslation(tbl, Head(docs).language, Head(docs).msg,
                                 Head(docs).translation),
                  Tail(docs))

\* str.substr(i, n), i counted from 0
substr(str, i, n) ==
  SubSeq(str, i + 1, IF i + n < Len(str) THEN i + n ELSE Len(str))

\* a variant of FromOf without the ':' before the token names
FromOfBare(params) == [j \in 1..Len(params) |-> params[j].name]

\* the from and to arrays of _strtr
FromOf(params) == [j \in 1..Len(params) |-> <<":">> \o params[j].name]
ToOf(params) == [j \in 1..Len(params) |-> params[j].value]

\* a variant of MatchAt that takes the longest token at position i
MatchAtLongest(str, from, i) ==
  LET hits == {j \in 1..Len(from) : substr(str, i, Len(from[j])) = from[j]}
  IN  IF hits = {} THEN 0
      ELSE CHOOSE j \in hits :
             \A h \in hits :
               \/ Len(from[h]) < Len(from[j])
               \/ Len(from[h]) = Len(from[j]) /\ j <= h

\* the inner loop of _strtr: the first j whose token is at position i, or 0
MatchAt(str, from, i) ==
  LET hits == {j \in 1..Len(from) : substr(str, i, Len(from[j])) = from[j]}
  IN  IF hits = {} THEN 0 ELSE CHOOSE j \in hits : \A h \in hits : j <= h

\* the outer loop of _strtr from position i with ret built so far
RECURSIVE strtrLoop(_, _, _, _, _)
strtrLoop(str, from, to, i, ret) ==
  IF ~(i < Len(str)) THEN ret
  ELSE LET j == MatchAt(str, from, i)
       IN  IF j # 0
           THEN strtrLoop(str, from, to, ((i + Len(from[j])) - 1) + 1, ret \o to[j])
           ELSE strtrLoop(str, from, to, i + 1, ret \o <<str[i + 1]>>)

\* the value of i at the end of one run of the outer loop's body, started
\* at position i: (i + from[j].length) - 1 after a match, i otherwise
bodyEnd(str, from, i) ==
  LET j == MatchAt(str, from, i)
  IN  IF j # 0 THEN (i + Len(from[j])) - 1 ELSE i

\* what one run of the body appends to ret
bodyText(str, from, to, i) ==
  LET j == MatchAt(str, from, i)
  IN  IF j # 0 THEN to[j] ELSE <<str[bodyEnd(str, from, i) + 1]>>

\* a variant of strtr whose scan starts at position 1
strtrFromOne(str, params) ==
  strtrLoop(str, FromOf(params), ToOf(params), 1, << >>)

strtr(str, params) == strtrLoop(str, FromOf(params), ToOf(params), 0, << >>)

\* a variant of t that leaves an untranslated string as it is
tRaw(tbl, language, str, params) ==
  IF ~IsUndefined(tbl, language) /\ Truthy(tbl[language], str)
  THEN strtr(tbl[language][str], params)
  ELSE str

\* Locale.prototype.t on the table tbl
t(tbl, language, str, params) ==
  IF ~IsUndefined(tbl, language) /\ Truthy(tbl[language], str)
  THEN strtr(tbl[language][str], params)
  ELSE strtr(str, params)

\* Locale.prototype.locales on the table tbl: the set, or the error thrown
Thrown == [thrown |-> TRUE, value |-> EmptyObj]
Returned(v) == [thrown |-> FALSE, value |-> v]

\* a variant of localesOf that also fails for a language without entries
localesOfNonEmpty(tbl, language) ==
  IF IsUndefined(tbl, language) \/ tbl[language] = EmptyObj
  THEN Thrown
  ELSE Returned(tbl[language])

localesOf(tbl, language) ==
  IF IsUndefined(tbl, language) THEN Thrown ELSE Returned(tbl[language])

\* the languages getter: Object.keys(locales)
languages == DOMAIN locales

----------------------------------------------------------------------------
(* The database collection *)

Doc(language, msg, translation) ==
  [language |-> language, msg |-> msg, translation |-> translation]

\* a variant of findOne that never finds a document
findOneNever(language, msg) == 0

\* collection.findOne({language, msg}): the _id of the first match, or 0
findOne(language, msg) ==
  LET ids == {i \in 1..Len(store) :
                store[i].language = language /\ store[i].msg = msg}
  IN  IF ids = {} THEN 0 ELSE CHOOSE i \in ids : \A h \in ids : i <= h

\* collection.save(doc): a document with an _id replaces the stored one, a
\* document without one is inserted
save(id, doc) ==
  IF id # 0 THEN [store EXCEPT ![id] = doc] ELSE Append(store, doc)

\* what the collection holds before the first call
InitStores == {
  << >>,
  << Doc("fr", K1, VB) >>,
  << Doc("jp", K1, Empty), Doc("fr", K2, VA) >> }

----------------------------------------------------------------------------
(* Calls *)

Slots == 1..MaxCalls

NoPrev ==
  [op |-> "none", language |-> "", str |-> Empty, translation |-> Empty,
   err |-> Null]

NoCall ==
  [op |-> "none", pc |-> "done", language |-> "", str |-> Empty,
   translation |-> Empty, dir |-> NoDir, filename |-> << >>, doc |-> 0,
   err |-> Null, pre |-> EmptyObj, prev |-> NoPrev,
   loaded |-> << >>, queried |-> FALSE, dones |-> << >>,
   id |-> 0, with |-> {}]

\* what a slot remembers of the call it held before
Summary(call) ==
  [op |-> call.op, language |-> call.language, str |-> call.str,
   translation |-> call.translation, err |-> call.err]

Idle(c) == calls[c].pc = "done"

\* a new call in slot c, made on the table as it is now: id numbers the
\* calls, with holds the ids of the calls that are in flight
NewCall(c, op, pc) ==
  [NoCall EXCEPT !.op = op, !.pc = pc, !.pre = locales,
                 !.prev = Summary(calls[c]), !.id = nOps + 1,
                 !.with = {calls[d].id : d \in {e \in Slots : ~Idle(e)}}]

NoObs ==
  [op |-> "none", language |-> "", str |-> Empty, params |-> << >>,
   thrown |-> FALSE, set |-> EmptyObj, text |-> Empty, pre |-> EmptyObj,
   i |-> 0, pc |-> "none"]

\* the caller awaits each call before it makes the next one
Awaited == \A c \in Slots : Idle(c)

\* the slot a new call takes
FreeSlot(c) == Idle(c) /\ \A d \in Slots : d < c => ~Idle(d)

CanCall == nOps < MaxOps

Init ==
  /\ locales = EmptyObj
  /\ store \in InitStores
  /\ calls = [c \in Slots |-> NoCall]
  /\ obs = NoObs
  /\ nOps = 0

----------------------------------------------------------------------------
(* Actions *)

\* what _processFile hands to done, call by call. done(null) is inside the
\* try block: when done throws there, the catch block calls done again with
\* what it threw. An error thrown by done inside the catch block leaves
\* _processFile.
doneCalls(err, throws) ==
  IF err = Null /\ throws THEN <<Null, "CallbackError">> ELSE <<err>>

\* addFromFile(filename, done): synchronous, done is called before it
\* returns; throws says whether the caller's done throws
addFromFile(c, filename, throws) ==
  /\ CanCall /\ FreeSlot(c)
  /\ LET r == processFile(locales, filename)
     IN  /\ locales' = r.table
         /\ calls' = [calls EXCEPT ![c] =
              [NewCall(c, "addFromFile", "done") EXCEPT
                 !.filename = filename, !.err = r.err,
                 !.loaded = <<filename>>,
                 !.dones = doneCalls(r.err, throws)]]
  /\ obs' = NoObs
  /\ nOps' = nOps + 1
  /\ UNCHANGED store

\* addFromDir(dir, done) up to the call of glob
addFromDir(c, dir) ==
  /\ CanCall /\ FreeSlot(c)
  /\ calls' = [calls EXCEPT ![c] =
       [NewCall(c, "addFromDir", "glob") EXCEPT !.dir = dir]]
  /\ obs' = NoObs
  /\ nOps' = nOps + 1
  /\ UNCHANGED <<locales, store>>

\* a variant of initialize that starts _addFromDatabase at once
initializeParallel(c, dir) ==
  /\ CanCall /\ FreeSlot(c)
  /\ calls' = [calls EXCEPT ![c] =
       [NewCall(c, "initialize", IF dir # NoDir THEN "glob" ELSE "find")
          EXCEPT !.dir = dir, !.queried = TRUE]]
  /\ obs' = NoObs
  /\ nOps' = nOps + 1
  /\ UNCHANGED <<locales, store>>

\* initialize(dir, done): with a directory the series starts with addFromDir,
\* without one it starts with _addFromDatabase. queried says whether find
\* has been called, loaded lists the files whose load has run.
initialize(c, dir) ==
  /\ CanCall /\ FreeSlot(c)
  /\ calls' = [calls EXCEPT ![c] =
       [NewCall(c, "initialize", IF dir # NoDir THEN "glob" ELSE "find")
          EXCEPT !.dir = dir, !.queried = (dir = NoDir)]]
  /\ obs' = NoObs
  /\ nOps' = nOps + 1
  /\ UNCHANGED <<locales, store>>

\* _addFromDatabase(done) up to the call of find
addFromDatabase(c) ==
  /\ CanCall /\ FreeSlot(c)
  /\ calls' = [calls EXCEPT ![c] =
       [NewCall(c, "addFromDatabase", "find") EXCEPT !.queried = TRUE]]
  /\ obs' = NoObs
  /\ nOps' = nOps + 1
  /\ UNCHANGED <<locales, store>>

\* the callback of glob: on an error done(err); otherwise the eligible files
\* are queued and the series runs them. Within initialize a series that ends
\* without an error goes on to _addFromDatabase.
globCallback(c, err) ==
  /\ calls[c].pc = "glob"
  /\ LET r == IF err # Null
              THEN [table |-> locales, err |-> err, loaded |-> << >>]
              ELSE series(locales, Queue(Glob(calls[c].dir)))
     IN  /\ locales' = r.table
         /\ calls' = [calls EXCEPT ![c] =
              IF r.err = Null /\ calls[c].op = "initialize"
              THEN [calls[c] EXCEPT !.pc = "find", !.loaded = r.loaded,
                                    !.queried = TRUE]
              ELSE [calls[c] EXCEPT !.pc = "done", !.err = r.err,
                                    !.loaded = r.loaded]]
  /\ obs' = NoObs
  /\ UNCHANGED <<store, nOps>>

\* the callback of find in _addFromDatabase
findCallback(c, err) ==
  /\ calls[c].pc = "find"
  /\ locales' = IF err # Null THEN locales ELSE forEachDoc(locales, store)
  /\ calls' = [calls EXCEPT ![c] = [calls[c] EXCEPT !.pc = "done", !.err = err]]
  /\ obs' = NoObs
  /\ UNCHANGED <<store, nOps>>

\* translate(language, str, translation, done) up to the call of findOne
translate(c, language, str, translation) ==
  /\ CanCall /\ FreeSlot(c)
  /\ calls' = [calls EXCEPT ![c] =
       [NewCall(c, "translate", "findOne") EXCEPT
          !.language = language, !.str = str, !.translation = translation]]
  /\ obs' = NoObs
  /\ nOps' = nOps + 1
  /\ UNCHANGED <<locales, store>>

\* a variant of translateWrite that keeps a translation already in the table
translateWriteIfAbsent(tbl, language, str, translation) ==
  IF ~IsUndefined(tbl, language) /\ Truthy(tbl[language], str)
  THEN tbl
  ELSE SetTranslation(tbl, language, str, translation)

\* the table after lines 309-312 of translate
translateWrite(tbl, language, str, translation) ==
  SetTranslation(tbl, language, str, translation)

\* the callback of findOne in translate: on an error done(err); otherwise
\* the document found (or a new one) takes the translation, the table is
\* written and save is called
findOneCallback(c, err) ==
  /\ calls[c].pc = "findOne"
  /\ IF err # Null
     THEN /\ calls' = [calls EXCEPT ![c] =
               [calls[c] EXCEPT !.pc = "done", !.err = err]]
          /\ UNCHANGED locales
     ELSE /\ calls' = [calls EXCEPT ![c] =
               [calls[c] EXCEPT !.pc = "save",
                  !.doc = findOne(calls[c].language, calls[c].str)]]
          /\ locales' = translateWrite(locales, calls[c].language,
                                       calls[c].str, calls[c].translation)
  /\ obs' = NoObs
  /\ UNCHANGED <<store, nOps>>

\* the callback of save in translate: a save that fails stores nothing
saveCallback(c, err2) ==
  /\ calls[c].pc = "save"
  /\ store' = IF err2 # Null THEN store
              ELSE save(calls[c].doc,
                        Doc(calls[c].language, calls[c].str,
                            calls[c].translation))
  /\ calls' = [calls EXCEPT ![c] = [calls[c] EXCEPT !.pc = "done", !.err = err2]]
  /\ obs' = NoObs
  /\ UNCHANGED <<locales, nOps>>

\* a call of locales(language)
Locales(language) ==
  /\ CanCall
  /\ LET r == localesOf(locales, language)
     IN  obs' = [NoObs EXCEPT !.op = "locales", !.language = language,
                              !.thrown = r.thrown, !.set = r.value,
                              !.pre = locales]
  /\ nOps' = nOps + 1
  /\ UNCHANGED <<locales, store, calls>>

\* a call of t(language, str, params)
T(language, str, params) ==
  /\ CanCall
  /\ obs' = [NoObs EXCEPT !.op = "t", !.language = language, !.str = str,
                          !.params = params,
                          !.text = t(locales, language, str, params),
                          !.pre = locales]
  /\ nOps' = nOps + 1
  /\ UNCHANGED <<locales, store, calls>>

\* a direct call of _strtr(str, params); _strtr reads and writes no state,
\* so one call per behaviour covers every call
Strtr(str, params) ==
  /\ obs = NoObs
  /\ obs' = [NoObs EXCEPT !.op = "strtr", !.str = str, !.params = params,
                          !.text = strtr(str, params)]
  /\ UNCHANGED <<locales, store, calls, nOps>>

\* _strtr(str, params) run by run of its outer loop: up to the first test
\* of i < len
ScanStart(str, params) ==
  /\ obs = NoObs
  /\ obs' = [NoObs EXCEPT !.op = "scan", !.str = str, !.params = params,
                          !.i = 0, !.text = << >>, !.pc = "loop"]
  /\ UNCHANGED <<locales, store, calls, nOps>>

\* the test i < len, and then either the return of ret or one run of the
\* body followed by i++
ScanStep ==
  /\ obs.op = "scan" /\ obs.pc = "loop"
  /\ obs' = IF ~(obs.i < Len(obs.str))
            THEN [obs EXCEPT !.pc = "done"]
            ELSE [obs EXCEPT
                    !.i = bodyEnd(obs.str, FromOf(obs.params), obs.i) + 1,
                    !.text = obs.text \o bodyText(obs.str, FromOf(obs.params),
                                                  ToOf(obs.params), obs.i)]
  /\ UNCHANGED <<locales, store, calls, nOps>>

\* what a collaborator hands to its callback: null or its error
GlobErrors == {Null, "GlobError"}
FindErrors == {Null, "FindError"}
FindOneErrors == {Null, "FindOneError"}
SaveErrors == {Null, "SaveError"}

\* Next: the calls, each made once the call before it has ended (the caller
\* awaits a call before it makes the next one), the callbacks of the
\* collaborators, and the synchronous reads, possible at any time
Next ==
  \/ \E c \in Slots, filename \in DirectFiles, throws \in BOOLEAN :
       Awaited /\ addFromFile(c, filename, throws)
  \/ \E c \in Slots, dir \in Dirs : Awaited /\ addFromDir(c, dir)
  \/ \E c \in Slots, dir \in Dirs \cup {NoDir} : Awaited /\ initialize(c, dir)
  \/ \E c \in Slots : Awaited /\ addFromDatabase(c)
  \/ \E c \in Slots, language \in Langs, str \in Keys, translation \in Vals :
       Awaited /\ translate(c, language, str, translation)
  \/ \E c \in Slots, err \in GlobErrors : globCallback(c, err)
  \/ \E c \in Slots, err \in FindErrors : findCallback(c, err)
  \/ \E c \in Slots, err \in FindOneErrors : findOneCallback(c, err)
  \/ \E c \in Slots, err2 \in SaveErrors : saveCallback(c, err2)
  \/ \E language \in Langs : Locales(language)
  \/ \E language \in Langs, str \in Keys, params \in ParamsSet :
       T(language, str, params)

Spec == Init /\ [][Next]_vars

\* The collection has no unique index on (language, msg), so what it holds
\* before the first call can have several documents for one pair.
LoadStores ==
  InitStores \cup {
    << Doc("fr", K1, VA), Doc("fr", K1, VB) >>,
    << Doc("fr", K1, VB), Doc("jp", K2, VA), Doc("fr", K1, Empty) >> }

LoadInit ==
  /\ locales = EmptyObj
  /\ store \in LoadStores
  /\ calls = [c \in Slots |-> NoCall]
  /\ obs = NoObs
  /\ nOps = 0

\* file loads and store loads, each awaited, and reads of the table
LoadNext ==
  \/ \E c \in Slots, filename \in DirectFiles, throws \in BOOLEAN :
       Awaited /\ addFromFile(c, filename, throws)
  \/ \E c \in Slots : Awaited /\ addFromDatabase(c)
  \/ \E c \in Slots, err \in FindErrors : findCallback(c, err)
  \/ \E language \in Langs : Locales(language)

LoadSpec == LoadInit /\ [][LoadNext]_vars

\* translate calls that the caller does not await: a call starts while
\* others are in flight, and the callbacks of findOne and save arrive in any
\* order
ConcNext ==
  \/ \E c \in Slots, language \in Langs, str \in Keys, translation \in Vals :
       translate(c, language, str, translation)
  \/ \E c \in Slots, err \in FindOneErrors : findOneCallback(c, err)
  \/ \E c \in Slots, err2 \in SaveErrors : saveCallback(c, err2)

ConcSpec == Init /\ [][ConcNext]_vars

\* direct calls of _strtr on a new Locale, as the tests of Locale.strtr() make
StrtrInit == Init /\ store = << >>

StrtrNext ==
  /\ obs = NoObs
  /\ \E str \in Strs, params \in ParamLists : Strtr(str, params)

StrtrSpec == StrtrInit /\ [][StrtrNext]_vars

\* the params of the scans: the position never depends on a value, so the
\* values are the plain one and the one that holds a token
ScanParamLists ==
  {ps \in ParamLists : \A j \in 1..Len(ps) : ps[j].value # << >>}

\* one call of _strtr, run by run of its loop; the loop is code that runs
\* on until it returns, so a step that can be taken is taken
ScanNext ==
  \/ /\ obs = NoObs
     /\ \E str \in Strs, params \in ScanParamLists : ScanStart(str, params)
  \/ ScanStep

ScanSpec == StrtrInit /\ [][ScanNext]_vars /\ WF_vars(ScanStep)

----------------------------------------------------------------------------
(* Properties *)

\* the table holds an entry for (language, msg)
Has(tbl, language, msg) ==
  language \in DOMAIN tbl /\ msg \in DOMAIN tbl[language]

\* two tables agree on (language, msg): both lack it or both hold one value
SameAt(t1, t2, language, msg) ==
  /\ Has(t1, language, msg) <=> Has(t2, language, msg)
  /\ Has(t1, language, msg) => t1[language][msg] = t2[language][msg]

\* the _ids of the documents stored for (language, msg)
DocsFor(language, msg) ==
  {i \in 1..Len(store) : store[i].language = language /\ store[i].msg = msg}

\* slot c holds a call of op that has called done
Ended(c, op) == calls[c].op = op /\ calls[c].pc = "done"

\* slot c holds a call of op that has called done(null)
Succeeded(c, op) == Ended(c, op) /\ calls[c].err = Null

\* C1: addFromFile never changes the value of a key that the table already
\* holds for the file's language (nor any other entry already there),
\* whatever that value is.
C1_AddFromFileKeepsPresentKeys ==
  \A c \in Slots :
    Ended(c, "addFromFile") =>
      \A language \in DOMAIN calls[c].pre :
        \A msg \in DOMAIN calls[c].pre[language] :
          /\ Has(locales, language, msg)
          /\ locales[language][msg] = calls[c].pre[language][msg]

\* C2: when translate reports an error (from findOne or from save), the
\* table is what it was when translate was called.
C2_FailedTranslateLeavesTable ==
  \A c \in Slots :
    (Ended(c, "translate") /\ calls[c].err # Null) =>
      locales = calls[c].pre

\* translate in slot c has passed the write of the table (line 312)
HasWritten(c) ==
  /\ calls[c].op = "translate"
  /\ \/ calls[c].pc = "save"
     \/ calls[c].pc = "done" /\ calls[c].err \in {Null, "SaveError"}

\* C3: in every state, also while translate is in flight, a value that
\* translate has written to the table is the translation of a document
\* stored for the same (language, msg).
C3_TranslateWrittenIsPersisted ==
  \A c \in Slots :
    HasWritten(c) =>
      \E i \in DocsFor(calls[c].language, calls[c].str) :
        store[i].translation = locales[calls[c].language][calls[c].str]

\* the table that the directory phase of initialize in slot c leaves
FileMerge(c) ==
  IF calls[c].dir = NoDir THEN calls[c].pre
  ELSE series(calls[c].pre, Queue(Glob(calls[c].dir))).table

\* C4: after initialize(dir) has succeeded, every (language, msg) with a
\* stored document holds the document's translation, also when a file of
\* dir defines the pair; every other entry is as the file merge left it.
C4_InitializeStoreWins ==
  \A c \in Slots :
    Succeeded(c, "initialize") =>
      /\ \A i \in 1..Len(store) :
           /\ Has(locales, store[i].language, store[i].msg)
           /\ locales[store[i].language][store[i].msg] = store[i].translation
      /\ DOMAIN locales =
           DOMAIN FileMerge(c) \cup {store[i].language : i \in 1..Len(store)}
      /\ \A language \in DOMAIN locales, msg \in Keys :
           DocsFor(language, msg) = {} =>
             SameAt(locales, FileMerge(c), language, msg)

\* C4 witness: initialize(dir) has succeeded where a file of dir gives a
\* stored pair another value than the document does.
C4_Witness ==
  \E c \in Slots :
    /\ Succeeded(c, "initialize")
    /\ calls[c].dir # NoDir
    /\ \E i \in 1..Len(store) :
         /\ Has(FileMerge(c), store[i].language, store[i].msg)
         /\ FileMerge(c)[store[i].language][store[i].msg] # store[i].translation
         /\ FileMerge(c)[store[i].language][store[i].msg] # Empty

\* slot c holds a successful translate that followed a successful translate
\* of the same (language, msg)
SecondTranslate(c) ==
  /\ Succeeded(c, "translate")
  /\ calls[c].prev.op = "translate"
  /\ calls[c].prev.err = Null
  /\ calls[c].prev.language = calls[c].language
  /\ calls[c].prev.str = calls[c].str

\* C5: after translate(lang, key, v1) and then translate(lang, key, v2) have
\* both succeeded, the store holds exactly one document for (lang, key), its
\* translation is v2, and the table holds v2.
C5_SecondTranslateOneRecord ==
  \A c \in Slots :
    SecondTranslate(c) =>
      /\ Cardinality(DocsFor(calls[c].language, calls[c].str)) = 1
      /\ \A i \in DocsFor(calls[c].language, calls[c].str) :
           store[i].translation = calls[c].translation
      /\ localesOf(locales, calls[c].language).value[calls[c].str]
           = calls[c].translation

\* C5 witness: the second translate has succeeded with another value than
\* the first.
C5_Witness ==
  \E c \in Slots :
    /\ SecondTranslate(c)
    /\ calls[c].prev.translation # calls[c].translation

\* C6: after translate(language, key, v) has succeeded the table holds v for
\* (language, key), whatever it held before, and every other entry is what
\* it was when translate was called.
C6_TranslateWins ==
  \A c \in Slots :
    Succeeded(c, "translate") =>
      /\ Has(locales, calls[c].language, calls[c].str)
      /\ locales[calls[c].language][calls[c].str] = calls[c].translation
      /\ DOMAIN locales = DOMAIN calls[c].pre \cup {calls[c].language}
      /\ \A language \in DOMAIN locales, msg \in Keys :
           (language # calls[c].language \/ msg # calls[c].str) =>
             SameAt(locales, calls[c].pre, language, msg)

\* C6 witness: translate has succeeded on a pair that a file had given
\* another, non-empty value.
C6_Witness ==
  \E c \in Slots :
    /\ Succeeded(c, "translate")
    /\ calls[c].prev.op = "addFromFile"
    /\ Has(calls[c].pre, calls[c].language, calls[c].str)
    /\ calls[c].pre[calls[c].language][calls[c].str]
         \notin {Empty, calls[c].translation}

\* the positions in the queue of the files that define msg for language
Defining(queue, language, msg) ==
  {j \in 1..Len(queue) :
     queue[j][2] = language /\ msg \in DOMAIN FileAt(queue[j]).content}

\* C7: addFromDir on an empty table leaves exactly the languages that the
\* eligible files name and, for each language and key, the value of the
\* earliest file in collector order that defines the key.
C7_AddFromDirEarliestFileWins ==
  \A c \in Slots :
    (Succeeded(c, "addFromDir") /\ calls[c].pre = EmptyObj) =>
      LET queue == Queue(Glob(calls[c].dir))
      IN  /\ DOMAIN locales = {queue[j][2] : j \in 1..Len(queue)}
          /\ \A language \in DOMAIN locales, msg \in Keys :
               LET js == Defining(queue, language, msg)
               IN  /\ Has(locales, language, msg) <=> js # {}
                   /\ js # {} =>
                        \E j \in js :
                          /\ \A h \in js : j <= h
                          /\ locales[language][msg] =
                               FileAt(queue[j]).content[msg]

\* C8: locales(language) fails exactly when the table lacks the language,
\* and otherwise returns the language's set.
C8_LocalesFailsIffAbsent ==
  obs.op = "locales" =>
    /\ obs.thrown <=> obs.language \notin languages
    /\ ~obs.thrown => obs.set = locales[obs.language]

\* C8 witness: locales has returned the empty set of a language that a
\* file without entries inserted.
C8_Witness ==
  /\ obs.op = "locales"
  /\ ~obs.thrown
  /\ obs.set = EmptyObj
  /\ \E c \in Slots : Succeeded(c, "addFromFile")

\* C9: when the table holds the language and the language's set holds the
\* key, t returns the substituted translation, whatever the translation is.
C9_TReturnsTranslation ==
  (obs.op = "t" /\ Has(locales, obs.language, obs.str)) =>
    obs.text = strtr(locales[obs.language][obs.str], obs.params)

\* C10: t leaves the table as it is, and for a language that the table
\* lacks or a key that the language's set lacks it returns the substituted
\* key.
C10_TPassesThroughUnknown ==
  obs.op = "t" =>
    /\ locales = obs.pre
    /\ ~Has(locales, obs.language, obs.str) =>
         obs.text = strtr(obs.str, obs.params)

\* C10 witness: t was called for a language that the table lacks, after
\* another language was loaded, and a token of the key was substituted.
C10_Witness ==
  /\ obs.op = "t"
  /\ obs.language \notin languages
  /\ languages # {}
  /\ obs.text # obs.str

\* a token of params is at the start of s
IsPrefix(p, s) == Len(p) <= Len(s) /\ SubSeq(s, 1, Len(p)) = p

TokensAtStart(s, params) ==
  {j \in 1..Len(params) : IsPrefix(<<":">> \o params[j].name, s)}

\* the reference scan: at the start of what is left of the string, the first
\* token of params that is there is replaced by its value and skipped;
\* otherwise one character is copied
RECURSIVE RefScan(_, _)
RefScan(s, params) ==
  IF s = << >> THEN << >>
  ELSE LET js == TokensAtStart(s, params)
       IN  IF js = {} THEN <<Head(s)>> \o RefScan(Tail(s), params)
           ELSE LET j == CHOOSE j \in js : \A h \in js : j <= h
                IN  params[j].value
                      \o RefScan(SubSeq(s, Len(params[j].name) + 2, Len(s)),
                                 params)

\* C11: _strtr(str, params) is the single left-to-right scan that replaces,
\* at each position, the first token in params order that is there (not the
\* longest) and never scans a replacement value.
C11_StrtrIsReferenceScan ==
  obs.op = "strtr" => obs.text = RefScan(obs.str, obs.params)

\* C11 witness: two tokens were at one position, the first of params the
\* shorter one, and its value, which holds a token, was emitted as it is.
C11_Witness ==
  /\ obs.op = "strtr"
  /\ obs.str = <<":", "n", "a">>
  /\ obs.params = <<Param(<<"n">>, <<":", "n">>), Param(<<"n", "a">>, <<"X">>)>>
  /\ obs.text = <<":", "n", "a">>

\* C12: without params (absent or empty) _strtr returns the string as it
\* is, also when the string holds ':' characters.
C12_StrtrNoParamsIdentity ==
  (obs.op = "strtr" /\ obs.params = << >>) => obs.text = obs.str

\* C12 witness: _strtr was called without params on a string with a ':'.
C12_Witness ==
  /\ obs.op = "strtr"
  /\ obs.params = << >>
  /\ \E i \in 1..Len(obs.str) : obs.str[i] = ":"
  /\ Len(obs.str) = MaxLen


\* the file name of a path, split on '.' (the directory stays on its first
\* segment)
NameSegments(path) == SubSeq(path, FileAt(path).dots + 1, Len(path))

\* the language code in the file name of a path: its second segment
NameLanguage(path) == NameSegments(path)[2]

\* C13: on a new table (no language yet) a successful addFromFile leaves
\* exactly one language, the second dot-separated segment of the file name,
\* and that language holds exactly the key/value pairs of the file.
C13_NewTableHoldsTheFile ==
  \A c \in Slots :
    (Succeeded(c, "addFromFile") /\ calls[c].pre = EmptyObj) =>
      /\ DOMAIN locales = {NameLanguage(calls[c].filename)}
      /\ locales[NameLanguage(calls[c].filename)]
           = FileAt(calls[c].filename).content

\* the position in a queue of the first file whose load fails, 0 if none
FirstFailure(queue) ==
  IF \E i \in 1..Len(queue) : ~FileAt(queue[i]).ok
  THEN CHOOSE i \in 1..Len(queue) :
         /\ ~FileAt(queue[i]).ok
         /\ \A j \in 1..(i - 1) : FileAt(queue[j]).ok
  ELSE 0

\* the table after loading the files of a sequence one after the other
RECURSIVE LoadAll(_, _)
LoadAll(tbl, files) ==
  IF files = << >> THEN tbl
  ELSE LoadAll(processFile(tbl, Head(files)).table, Tail(files))

\* addFromDir in slot c has ended with the error of a file load
DirLoadFailed(c) ==
  Ended(c, "addFromDir") /\ calls[c].err \notin {Null, "GlobError"}

\* C14: addFromDir stops at the first eligible file whose load fails and
\* reports the error of that file: no file after it in the collector's
\* order is loaded, and the table is the result of loading the eligible
\* files before it (what they changed is kept).
C14_AddFromDirStopsAtFirstFailure ==
  \A c \in Slots :
    DirLoadFailed(c) =>
      LET queue == Queue(Glob(calls[c].dir))
          k == FirstFailure(queue)
      IN  /\ k > 0
          /\ calls[c].err = LoadError(queue[k])
          /\ calls[c].loaded = SubSeq(queue, 1, k)
          /\ locales = LoadAll(calls[c].pre, SubSeq(queue, 1, k - 1))

\* addFromDir has failed on the second of four eligible files, of which a
\* later one fails too, and the first file's key is kept
C14_Witness ==
  \E c \in Slots :
    /\ DirLoadFailed(c)
    /\ calls[c].dir = "mix"
    /\ calls[c].err = "LoadError mix/broken"
    /\ calls[c].loaded = << <<"mix/x", "fr", "json">>,
                            <<"mix/broken", "jp", "json">> >>
    /\ calls[c].pre = EmptyObj
    /\ locales = SetKey(EmptyObj, "fr", SetKey(EmptyObj, K2, VA))

\* C15: initialize with a directory runs the directory load to its end
\* before the store load starts (find is not called while glob or a file
\* load is outstanding, and once it is called every eligible file has been
\* loaded), and never calls find when the directory load fails; without a
\* directory it only loads from the store.
C15_InitializeDirThenStore ==
  \A c \in Slots :
    calls[c].op = "initialize" =>
      IF calls[c].dir = NoDir
      THEN calls[c].queried /\ calls[c].loaded = << >>
      ELSE /\ calls[c].pc = "glob" =>
                ~calls[c].queried /\ calls[c].loaded = << >>
           /\ calls[c].queried =>
                /\ calls[c].loaded = Queue(Glob(calls[c].dir))
                /\ FirstFailure(calls[c].loaded) = 0
                /\ calls[c].err \in FindErrors
           /\ (calls[c].pc = "done" /\ calls[c].err \notin FindErrors) =>
                ~calls[c].queried

\* initialize has ended with the error of a file load, after loading a file,
\* without a call of find, although the store holds documents
C15_Witness ==
  \E c \in Slots :
    /\ Ended(c, "initialize")
    /\ calls[c].dir = "mix"
    /\ calls[c].err = "LoadError mix/broken"
    /\ ~calls[c].queried
    /\ Len(calls[c].loaded) = 2
    /\ store # << >>
    /\ locales = LoadAll(calls[c].pre, <<calls[c].loaded[1]>>)

\* the document received last among those stored for (language, msg)
LastDocFor(language, msg) ==
  store[CHOOSE i \in DocsFor(language, msg) :
          \A j \in DocsFor(language, msg) : j <= i]

\* C16: a successful _addFromDatabase leaves, for every pair that has stored
\* documents, the translation of the document received last, whatever the
\* table held, and leaves every other entry as it was; when find fails it
\* reports the error and the table is unchanged.
C16_StoreLoadOverwritesInOrder ==
  \A c \in Slots :
    Ended(c, "addFromDatabase") =>
      IF calls[c].err = Null
      THEN /\ DOMAIN locales =
                DOMAIN calls[c].pre \cup {store[i].language : i \in 1..Len(store)}
           /\ \A language \in DOMAIN locales, msg \in Keys :
                IF DocsFor(language, msg) # {}
                THEN /\ Has(locales, language, msg)
                     /\ locales[language][msg]
                          = LastDocFor(language, msg).translation
                ELSE SameAt(locales, calls[c].pre, language, msg)
      ELSE calls[c].err = "FindError" /\ locales = calls[c].pre

\* a store load has succeeded on a table that held "a" for ("fr", "k"),
\* with three documents, two of them for that pair: the later one's '' is
\* in the table, and ("jp", ":n") was added
C16_Witness ==
  \E c \in Slots :
    /\ Succeeded(c, "addFromDatabase")
    /\ Len(store) = 3
    /\ Has(calls[c].pre, "fr", K1) /\ calls[c].pre["fr"][K1] = VA
    /\ Cardinality(DocsFor("fr", K1)) = 2
    /\ locales["fr"][K1] = Empty
    /\ ~Has(calls[c].pre, "jp", K2) /\ locales["jp"][K2] = VA

\* the file name of a path has 3 segments, the middle one of 2 characters
NameEligible(path) ==
  Len(NameSegments(path)) = 3 /\ Len(NameLanguage(path)) = 2

\* C17: when addFromDir has succeeded, a collected file has been loaded if
\* and only if its file name, split on '.', has 3 segments with a middle
\* segment of 2 characters, wherever the directory is.
C17_LoadedIffNameEligible ==
  \A c \in Slots :
    Succeeded(c, "addFromDir") =>
      \A i \in 1..Len(Glob(calls[c].dir)) :
        (\E j \in 1..Len(calls[c].loaded) :
           calls[c].loaded[j] = Glob(calls[c].dir)[i])
          <=> NameEligible(Glob(calls[c].dir)[i])

\* C18: every call of addFromFile calls done exactly once, with null when
\* the load succeeded and with the load error when it failed, also when
\* done throws while it handles the success.
C18_AddFromFileCallsDoneOnce ==
  \A c \in Slots :
    Ended(c, "addFromFile") =>
      calls[c].dones =
        << IF FileAt(calls[c].filename).ok
           THEN Null ELSE LoadError(calls[c].filename) >>

\* every language and every key of the table is in the table of the next
\* state
Grows ==
  \A language \in DOMAIN locales :
    /\ language \in DOMAIN locales'
    /\ DOMAIN locales[language] \subseteq DOMAIN locales'[language]

\* C19: the table only grows: no step of addFromFile, addFromDir,
\* _addFromDatabase, initialize, translate, locales or t, successful or
\* failed, removes a language or a key (so a language that locales() finds
\* is found in every later state).
C19_TableOnlyGrows == [][Grows]_vars

\* a file load has run on a table that held a key the file does not have,
\* for the file's language, and the key is still there
C19_Witness ==
  \E c \in Slots :
    /\ Succeeded(c, "addFromFile")
    /\ calls[c].filename = <<"tmp/test1", "fr", "json">>
    /\ Has(calls[c].pre, "fr", K2)
    /\ Has(locales, "fr", K2) /\ Has(locales, "fr", K1)

\* slots c and d hold successful translate calls of one (language, msg)
\* with different translations, and the call in c was in flight when the
\* call in d was made
Overlapped(c, d) ==
  /\ Succeeded(c, "translate") /\ Succeeded(d, "translate")
  /\ calls[c].id \in calls[d].with
  /\ calls[c].language = calls[d].language
  /\ calls[c].str = calls[d].str
  /\ calls[c].translation # calls[d].translation

\* C20: when two translate calls of one (language, key) with different
\* values were in flight together and both have succeeded, then, whatever
\* the order of their findOne and save callbacks, the store holds exactly
\* one document for the pair and its translation is the value in the table.
C20_OverlappedTranslateOneRecord ==
  \A c \in Slots, d \in Slots :
    Overlapped(c, d) =>
      /\ Cardinality(DocsFor(calls[c].language, calls[c].str)) = 1
      /\ \A i \in DocsFor(calls[c].language, calls[c].str) :
           store[i].translation = locales[calls[c].language][calls[c].str]

\* one step of a running scan: the body does not move i backwards, a
\* scan that goes on has a greater i that is not past the end of the string,
\* and the scan that returns has produced strtr(str, params)
ScanProgress ==
  (obs.op = "scan" /\ obs.pc = "loop") =>
    /\ obs.i < Len(obs.str) =>
         /\ bodyEnd(obs.str, FromOf(obs.params), obs.i) >= obs.i
         /\ obs'.pc = "loop"
         /\ obs'.i > obs.i
         /\ obs'.i <= Len(obs.str)
    /\ ~(obs.i < Len(obs.str)) =>
         /\ obs'.pc = "done"
         /\ obs'.text = strtr(obs.str, obs.params)

\* C21: _strtr terminates for every string and every params (also with a
\* token of the empty name and with values that hold tokens): the scan
\* position grows with every run of the loop, never moves backwards, and
\* every scan that has started returns.
C21_StrtrTerminates ==
  /\ [][ScanProgress]_vars
  /\ (obs.op = "scan") ~> (obs.op = "scan" /\ obs.pc = "done")

\* a scan has returned after passing, in one run of the loop, the token of
\* the empty name ':' whose value holds a token
C21_Witness ==
  /\ obs.op = "scan" /\ obs.pc = "done"
  /\ obs.str = <<":", "n", ":">>
  /\ obs.params = <<Param(<< >>, <<":", "n">>), Param(<<"n">>, <<"X">>)>>
  /\ obs.text = <<":", "n", "n", ":", "n">>

=============================================================================
